---- MODULE Spec2Model ----
(***************************************************************************)
(* Model of the 2024 presidential polling pipelines:                       *)
(*   - processing-pipeline-files/main.py and the modules it calls          *)
(*     (data_loader.py, cleaners.py, feature_engineering.py, config.py);   *)
(*   - comprehensive_polling_processor.py (SimplifiedPollingProcessor).    *)
(*                                                                         *)
(* Representation.                                                         *)
(*   A table (DataFrame) is a record [columns, rows]: the set of column    *)
(*   names and the sequence of rows; a row is a function from the column   *)
(*   names to cell values.                                                 *)
(*   Percentages, margins of error and confidence bounds are fixed-point   *)
(*   numbers in hundredths of a percentage point (50.00 % is 5000).        *)
(*   A timestamp is a day number: the days since 2024-01-01.               *)
(*   Text cells are strings; the text of a date cell is parsed through     *)
(*   strptime below.                                                       *)
(***************************************************************************)
EXTENDS Integers, Sequences, FiniteSets, TLC

VARIABLES
    argv,                   \* sys.argv[1:]
    input_csv,              \* content of the file named by input_file
    pc,                     \* position in main / process_polling_data
    input_file,             \* main: input_file
    debug_mode,             \* main: debug_mode
    df,                     \* process_polling_data: df
    date_format_used,       \* clean_dates: format adopted per date column
    exc,                    \* the exception in flight or handled
    stages_run,             \* the stages that completed, in order
    output_csv,             \* content of output_file
    report,                 \* what main printed last
    exit_status,            \* status passed to sys.exit
    logged_methodologies,   \* feature_engineering._logged_methodologies
    run,                    \* number of the process_polling_data call
    result_df,              \* the table the last call returned
    first_result,           \* the table the first call returned
    infer_format,           \* the installed pandas guesses one date format
                            \* per column (pandas 2) or parses per value
    stage_input,            \* the table passed to the stage that ran last,
                            \* as it was when the stage was called
    passed_df,              \* the same table object, as it is after the call
    diagnostics             \* the methodology strings of the "Unrecognized
                            \* methodology" messages logged so far, in order

vars == <<argv, input_csv, pc, input_file, debug_mode, df, date_format_used,
          exc, stages_run, output_csv, report, exit_status,
          logged_methodologies, run, result_df, first_result, infer_format,
          stage_input, passed_df, diagnostics>>

----------------------------------------------------------------------------
(* Missing values *)

\* np.nan in a numeric cell
NaN == -999999
\* pd.NaT in a datetime cell
NaT == -999998
\* a missing value (NaN / None) in a text cell
NA == "<NA>"

isna(x) == x = NaN
isnat(x) == x = NaT
isnull(x) == x = NA

\* no file at a path / no table
NoFile == [columns |-> {"<no file>"}, rows |-> <<>>]
NoTable == [columns |-> {"<no table>"}, rows |-> <<>>]
NoStatus == -1

----------------------------------------------------------------------------
(* Bounds of the model *)

\* most rows in an input file
MaxRows == 2

----------------------------------------------------------------------------
(* config.py *)

\* pd.Timestamp("YYYY-MM-DD") as a day number, for 2016 and 2023..2025
DaysBeforeMonth(m) ==
    CASE m = 1 -> 0    [] m = 2 -> 31   [] m = 3 -> 59   [] m = 4 -> 90
      [] m = 5 -> 120  [] m = 6 -> 151  [] m = 7 -> 181  [] m = 8 -> 212
      [] m = 9 -> 243  [] m = 10 -> 273 [] m = 11 -> 304 [] m = 12 -> 334

Timestamp(y, m, d) ==
    LET yearStart == CASE y = 2016 -> -2922 [] y = 2023 -> -365
                       [] y = 2024 -> 0 [] y = 2025 -> 366
        leapDay == IF y \in {2016, 2024} /\ m > 2 THEN 1 ELSE 0
    IN  yearStart + DaysBeforeMonth(m) + leapDay + (d - 1)

DATE_FORMATS == <<"%Y-%m-%d", "%m/%d/%Y", "%Y-%m-%d %H:%M:%S", "%m-%d-%Y">>

DATE_COLUMNS == <<"start_date", "end_date", "election_date">>

REQUIRED_COLUMNS == <<"candidate_name", "pct", "end_date">>

SWING_STATES == {"Arizona", "Georgia", "Michigan", "Nevada", "North Carolina",
                 "Pennsylvania", "Wisconsin"}

MAIN_CANDIDATES == {"Donald Trump", "Joe Biden", "Kamala Harris"}

ELECTION_DATE == Timestamp(2024, 11, 5)
HARRIS_ENTRY_DATE == Timestamp(2024, 7, 21)
FIRST_DEBATE_DATE == Timestamp(2024, 9, 10)

CAMPAIGN_PHASES ==
    << [phase |-> "Early Primary",
        start |-> Timestamp(2023, 1, 1), end |-> Timestamp(2024, 3, 1)],
       [phase |-> "Primary Season",
        start |-> Timestamp(2024, 3, 1), end |-> Timestamp(2024, 7, 21)],
       [phase |-> "Harris Entry",
        start |-> Timestamp(2024, 7, 21), end |-> Timestamp(2024, 9, 1)],
       [phase |-> "General Election",
        start |-> Timestamp(2024, 9, 1), end |-> Timestamp(2024, 11, 5)],
       [phase |-> "Post-Election",
        start |-> Timestamp(2024, 11, 5), end |-> Timestamp(2025, 1, 20)] >>

KEY_EVENTS == {Timestamp(2024, 7, 21), Timestamp(2024, 8, 19),
               Timestamp(2024, 9, 10), Timestamp(2024, 10, 1),
               Timestamp(2024, 11, 5)}

----------------------------------------------------------------------------
(* Sequences and tables *)

Range(s) == {s[i] : i \in DOMAIN s}

\* df[mask]: the rows that satisfy Keep, in their order
SelectRows(rows, Keep(_)) == SelectSeq(rows, Keep)

\* the rows with column col set (or added) by F(row)
Assign(rows, col, F(_)) ==
    [i \in DOMAIN rows |->
        [c \in (DOMAIN rows[i]) \cup {col} |->
            IF c = col THEN F(rows[i]) ELSE rows[i][c]]]

\* df[cols]: projection onto the columns cols
Project(rows, cols) ==
    [i \in DOMAIN rows |-> [c \in cols |-> rows[i][c]]]

----------------------------------------------------------------------------
(* Text *)

UPPER == "ABCDEFGHIJKLMNOPQRSTUVWXYZ"
LOWER == "abcdefghijklmnopqrstuvwxyz"

\* the character at position i of s, as a string of length 1
CharAt(s, i) == SubSeq(s, i, i)

\* str.lower() on one character
LowerChar(c) ==
    IF \E k \in 1..Len(UPPER) : CharAt(UPPER, k) = c
    THEN CharAt(LOWER, CHOOSE k \in 1..Len(UPPER) : CharAt(UPPER, k) = c)
    ELSE c

RECURSIVE Lower(_)
\* str.lower()
Lower(s) ==
    IF Len(s) = 0 THEN s
    ELSE LowerChar(CharAt(s, 1)) \o Lower(SubSeq(s, 2, Len(s)))

RECURSIVE LStrip(_)
LStrip(s) ==
    IF Len(s) > 0 /\ CharAt(s, 1) = " " THEN LStrip(SubSeq(s, 2, Len(s))) ELSE s

RECURSIVE RStrip(_)
RStrip(s) ==
    IF Len(s) > 0 /\ CharAt(s, Len(s)) = " "
    THEN RStrip(SubSeq(s, 1, Len(s) - 1)) ELSE s

\* str.strip(): surrounding whitespace removed
Strip(s) == RStrip(LStrip(s))

\* Series.str.strip() on one cell: a missing cell stays missing
StrStrip(cell) == IF isnull(cell) THEN NA ELSE Strip(cell)

\* Series.str.lower() on one cell
StrLower(cell) == IF isnull(cell) THEN NA ELSE Lower(cell)

\* sub in s
Contains(s, sub) ==
    \E i \in 1..(Len(s) - Len(sub) + 1) : SubSeq(s, i, i + Len(sub) - 1) = sub

----------------------------------------------------------------------------
(* Arithmetic *)

RECURSIVE SqrtBetween(_, _, _)
\* the largest r in lo..hi with r * r <= x, given lo * lo <= x
SqrtBetween(x, lo, hi) ==
    IF lo >= hi THEN lo
    ELSE LET mid == (lo + hi + 1) \div 2
         IN  IF mid * mid <= x THEN SqrtBetween(x, mid, hi)
             ELSE SqrtBetween(x, lo, mid - 1)

\* floor(np.sqrt(x)) for 0 <= x < 2^30
ISqrt(x) == SqrtBetween(x, 0, 32767)

Max(a, b) == IF a >= b THEN a ELSE b
Min(a, b) == IF a <= b THEN a ELSE b

----------------------------------------------------------------------------
(* Date texts and pandas.to_datetime *)

\* The date texts of the input files.  form is the one strptime pattern the
\* text matches ("" when no parser accepts the text), day its date.
DATE_TEXTS ==
    { [text |-> "2024-10-01", form |-> "%Y-%m-%d", day |-> Timestamp(2024, 10, 1)],
      [text |-> "2024-09-24", form |-> "%Y-%m-%d", day |-> Timestamp(2024, 9, 24)],
      [text |-> "10/1/2024", form |-> "%m/%d/%Y", day |-> Timestamp(2024, 10, 1)],
      [text |-> "2024-10-01 00:00:00", form |-> "%Y-%m-%d %H:%M:%S",
       day |-> Timestamp(2024, 10, 1)],
      [text |-> "10-01-2024", form |-> "%m-%d-%Y", day |-> Timestamp(2024, 10, 1)],
      [text |-> "11/5/24", form |-> "%m/%d/%y", day |-> Timestamp(2024, 11, 5)],
      [text |-> "Oct 1, 2024", form |-> "%b %d, %Y", day |-> Timestamp(2024, 10, 1)],
      [text |-> "10/2/24 09:15", form |-> "%m/%d/%y %H:%M",
       day |-> Timestamp(2024, 10, 2)],
      [text |-> "10/3/24 11:00", form |-> "%m/%d/%y %H:%M",
       day |-> Timestamp(2024, 10, 3)],
      [text |-> "2024-10-05", form |-> "%Y-%m-%d", day |-> Timestamp(2024, 10, 5)],
      [text |-> "2024-08-01", form |-> "%Y-%m-%d", day |-> Timestamp(2024, 8, 1)],
      [text |-> "2024-11-10", form |-> "%Y-%m-%d", day |-> Timestamp(2024, 11, 10)],
      [text |-> "2024-11-05", form |-> "%Y-%m-%d", day |-> Timestamp(2024, 11, 5)],
      [text |-> "2024-10-06", form |-> "%Y-%m-%d", day |-> Timestamp(2024, 10, 6)],
      [text |-> "2024-07-28", form |-> "%Y-%m-%d", day |-> Timestamp(2024, 7, 28)],
      [text |-> "2024-07-27", form |-> "%Y-%m-%d", day |-> Timestamp(2024, 7, 27)],
      [text |-> "2024-04-19", form |-> "%Y-%m-%d", day |-> Timestamp(2024, 4, 19)],
      [text |-> "2024-04-18", form |-> "%Y-%m-%d", day |-> Timestamp(2024, 4, 18)],
      [text |-> "2023-11-06", form |-> "%Y-%m-%d", day |-> Timestamp(2023, 11, 6)],
      [text |-> "2023-11-05", form |-> "%Y-%m-%d", day |-> Timestamp(2023, 11, 5)],
      [text |-> "2016-08-19", form |-> "%Y-%m-%d", day |-> Timestamp(2016, 8, 19)],
      [text |-> "2023-01-01", form |-> "%Y-%m-%d", day |-> Timestamp(2023, 1, 1)],
      [text |-> "2024-03-01", form |-> "%Y-%m-%d", day |-> Timestamp(2024, 3, 1)],
      [text |-> "2024-03-02", form |-> "%Y-%m-%d", day |-> Timestamp(2024, 3, 2)],
      [text |-> "2024-07-21", form |-> "%Y-%m-%d", day |-> Timestamp(2024, 7, 21)],
      [text |-> "2024-09-01", form |-> "%Y-%m-%d", day |-> Timestamp(2024, 9, 1)],
      [text |-> "2025-01-20", form |-> "%Y-%m-%d", day |-> Timestamp(2025, 1, 20)],
      [text |-> "2025-01-21", form |-> "%Y-%m-%d", day |-> Timestamp(2025, 1, 21)],
      [text |-> "TBD", form |-> "", day |-> NaT] }

DateEntry(text) == CHOOSE e \in DATE_TEXTS : e.text = text

\* some parser accepts the text
Parseable(text) == ~isnull(text) /\ DateEntry(text).form # ""

\* datetime.strptime(text, format) succeeds
Matches(text, format) == Parseable(text) /\ DateEntry(text).form = format

\* pd.to_datetime(values, format=format, errors="raise") raises ValueError:
\* some present value does not match the format
ToDatetimeRaises(values, format) ==
    \E i \in DOMAIN values : ~isnull(values[i]) /\ ~Matches(values[i], format)

\* pd.to_datetime(values, format=format, errors="raise") when it returns
ToDatetimeFormat(values, format) ==
    [i \in DOMAIN values |->
        IF isnull(values[i]) THEN NaT ELSE DateEntry(values[i]).day]

\* pd.to_datetime(values, errors="coerce"), no format given.
\* infer = FALSE: every value is parsed on its own (pandas before 2.0, and
\*   pandas 2 when it cannot guess a format from the first present value).
\* infer = TRUE: pandas 2 guesses the format of the first present value and
\*   applies it to the whole column; a value of another format becomes NaT.
ToDatetimeCoerce(values, infer) ==
    LET present == {i \in DOMAIN values : ~isnull(values[i])}
        first == CHOOSE i \in present : \A j \in present : i <= j
        guessed == IF infer /\ present # {} /\ Parseable(values[first])
                   THEN DateEntry(values[first]).form ELSE ""
    IN  [i \in DOMAIN values |->
            IF isnull(values[i]) \/ ~Parseable(values[i]) THEN NaT
            ELSE IF guessed # "" /\ ~Matches(values[i], guessed) THEN NaT
            ELSE DateEntry(values[i]).day]

----------------------------------------------------------------------------
(* cleaners.py *)

RECURSIVE TryDateFormats(_, _, _)
\* clean_dates, the loop over Config.DATE_FORMATS from index k on and the
\* fallback after it, for the values of one column
TryDateFormats(values, k, infer) ==
    IF k > Len(DATE_FORMATS)
    THEN [values |-> ToDatetimeCoerce(values, infer), format |-> "flexible"]
    ELSE IF ToDatetimeRaises(values, DATE_FORMATS[k])
         THEN TryDateFormats(values, k + 1, infer)
         ELSE [values |-> ToDatetimeFormat(values, DATE_FORMATS[k]),
               format |-> DATE_FORMATS[k]]

Column(t, col) == [i \in DOMAIN t.rows |-> t.rows[i][col]]

\* clean_dates: the table with every present date column parsed
clean_dates(t, infer) ==
    [columns |-> t.columns,
     rows |-> [i \in DOMAIN t.rows |->
                [c \in t.columns |->
                    IF c \in Range(DATE_COLUMNS)
                    THEN TryDateFormats(Column(t, c), 1, infer).values[i]
                    ELSE t.rows[i][c]]]]

\* clean_dates: the format logged as adopted for each present date column
clean_dates_formats(t, infer) ==
    [c \in Range(DATE_COLUMNS) \cap t.columns |->
        TryDateFormats(Column(t, c), 1, infer).format]

\* filter_main_candidates(df, apply_filter=True)
filter_main_candidates(t) ==
    IF "candidate_name" \in t.columns
    THEN LET stripped == Assign(t.rows, "candidate_name",
                                LAMBDA r : StrStrip(r["candidate_name"]))
         IN  [columns |-> t.columns,
              rows |-> SelectRows(stripped,
                          LAMBDA r : r["candidate_name"] \in MAIN_CANDIDATES)]
    ELSE t

----------------------------------------------------------------------------
(* data_loader.py *)

\* validate_raw_data without the check for an empty table
validate_raw_data_raises_NoEmptyCheck(t) ==
    \E c \in Range(REQUIRED_COLUMNS) : c \notin t.columns

\* validate_raw_data raises ValueError
validate_raw_data_raises(t) ==
    LET missing_columns ==
            {c \in Range(REQUIRED_COLUMNS) : c \notin t.columns}
    IN  missing_columns # {} \/ Len(t.rows) = 0

----------------------------------------------------------------------------
(* feature_engineering.py *)

\* df[col] raises KeyError for some col of cols
KeyError(t, cols) == ~(cols \subseteq t.columns)

\* the table with the derived column col = F(row) added
WithColumn(t, col, F(_)) ==
    [columns |-> t.columns \cup {col}, rows |-> Assign(t.rows, col, F)]

\* _classify_geographic_scope without the test for a missing state
_classify_geographic_scope_NoMissing(state_value) ==
    IF state_value \in SWING_STATES THEN "Swing State" ELSE "Other State"

_classify_geographic_scope(state_value) ==
    IF isnull(state_value) THEN "National"
    ELSE IF state_value \in SWING_STATES THEN "Swing State"
    ELSE "Other State"

add_geographic_features(t) ==
    WithColumn(t, "geographic_scope",
               LAMBDA r : _classify_geographic_scope(r["state"]))

RECURSIVE PhaseFrom(_, _)
\* _get_campaign_phase: the loop over Config.CAMPAIGN_PHASES from index k on.
\* A comparison with NaT is False.
PhaseFrom(date, k) ==
    IF k > Len(CAMPAIGN_PHASES) THEN "Other"
    ELSE IF ~isnat(date) /\ CAMPAIGN_PHASES[k].start <= date
                         /\ date <= CAMPAIGN_PHASES[k].end
         THEN CAMPAIGN_PHASES[k].phase
         ELSE PhaseFrom(date, k + 1)

\* _get_campaign_phase with windows that are open at their end
_get_campaign_phase_HalfOpen(date) ==
    LET within == {k \in DOMAIN CAMPAIGN_PHASES :
                      /\ ~isnat(date)
                      /\ CAMPAIGN_PHASES[k].start <= date
                      /\ date < CAMPAIGN_PHASES[k].end}
    IN  IF within = {} THEN "Other"
        ELSE CAMPAIGN_PHASES[CHOOSE k \in within : \A j \in within : k <= j].phase

_get_campaign_phase(date) == PhaseFrom(date, 1)

\* (a - b).dt.days for two datetime cells
DaysBetween(a, b) == IF isnat(a) \/ isnat(b) THEN NaN ELSE a - b

\* add_temporal_features.  The calendar parts (year, month, quarter,
\* week_of_year, month_year, year_quarter), weeks_until_election and the
\* event name key_event are columns no later stage reads and the returned
\* table does not hold; they are left out of the rows.  has_key_event is
\* key_event.notna(): the end date is a key of Config.KEY_EVENTS.
add_temporal_features(t) ==
    LET t1 == WithColumn(t, "days_until_election",
                  LAMBDA r : DaysBetween(ELECTION_DATE, r["end_date"]))
        t2 == WithColumn(t1, "days_since_harris_entry",
                  LAMBDA r : DaysBetween(r["end_date"], HARRIS_ENTRY_DATE))
        t3 == WithColumn(t2, "days_from_first_debate",
                  LAMBDA r : DaysBetween(r["end_date"], FIRST_DEBATE_DATE))
        t4 == WithColumn(t3, "campaign_phase",
                  LAMBDA r : _get_campaign_phase(r["end_date"]))
    IN  WithColumn(t4, "has_key_event",
                  LAMBDA r : r["end_date"] \in KEY_EVENTS)

\* add_methodology_features: population_mapping, then fillna("All adults")
population_clean(population) ==
    LET code == StrLower(population)
    IN  CASE code \in {"a", "all", "v"} -> "(All)"
          [] code = "rv" -> "Registered voters"
          [] code = "lv" -> "Likely voters"
          [] OTHER -> "All adults"

phone_keywords == {"live", "phone", "telephone", "landline", "cell", "mobile"}
online_keywords == {"online", "web", "internet", "digital", "panel",
                    "probability", "app", "email"}
ivr_keywords == {"ivr", "robo", "automated", "auto", "interactive"}
text_keywords == {"text", "sms"}

\* _clean_methodology with a result that depends on _logged_methodologies: a
\* string that was logged before is reported as "Unknown"
_clean_methodology_Relabel(method, logged) ==
    IF isnull(method) \/ method \in logged
    THEN [label |-> "Unknown", logged |-> logged]
    ELSE [label |-> "Mixed/Other", logged |-> logged \cup {method}]

\* _clean_methodology: the label returned, and _logged_methodologies after
\* the call
_clean_methodology(method, logged) ==
    IF isnull(method) THEN [label |-> "Unknown", logged |-> logged]
    ELSE
      LET method_str == Lower(method)
          all_keywords == phone_keywords \cup online_keywords
                             \cup ivr_keywords \cup text_keywords
          unrecognized == ~\E keyword \in all_keywords :
                              Contains(method_str, keyword)
          label ==
            IF Contains(method, "live") \/ Contains(method, "phone")
            THEN "Live Phone"
            ELSE IF Contains(method, "online") \/ Contains(method, "web")
            THEN "Online"
            ELSE IF Contains(method, "ivr") \/ Contains(method, "robo")
            THEN "IVR/Robocall"
            ELSE IF Contains(method, "text") \/ Contains(method, "sms")
            THEN "Text/SMS"
            ELSE "Mixed/Other"
      IN  [label |-> label,
           logged |-> IF unrecognized THEN logged \cup {method} ELSE logged]

RECURSIVE LoggedAfter(_, _, _)
\* df["methodology"].apply(_clean_methodology): _logged_methodologies after
\* the calls for rows k.. in row order
LoggedAfter(rows, k, logged) ==
    IF k > Len(rows) THEN logged
    ELSE LoggedAfter(rows, k + 1,
                     _clean_methodology(rows[k]["methodology"], logged).logged)

RECURSIVE DiagnosticsAfter(_, _, _, _)
\* df["methodology"].apply(_clean_methodology): the "Unrecognized methodology"
\* messages after the calls for rows k.. in row order.  logger.debug is called
\* in the branch that adds the string to _logged_methodologies, and only
\* there.
DiagnosticsAfter(rows, k, logged, log) ==
    IF k > Len(rows) THEN log
    ELSE LET method == rows[k]["methodology"]
             after == _clean_methodology(method, logged).logged
         IN  DiagnosticsAfter(rows, k + 1, after,
                              IF after # logged THEN Append(log, method) ELSE log)

\* df["methodology"].apply(_clean_methodology): the label of row k
MethodologyLabel(rows, k, logged) ==
    _clean_methodology(rows[k]["methodology"],
                       LoggedAfter(SubSeq(rows, 1, k - 1), 1, logged)).label

\* fillna("").str.lower().isin(["yes", "true", "1"])
IsTruthy(cell) ==
    Lower(IF isnull(cell) THEN "" ELSE cell) \in {"yes", "true", "1"}

\* (end_date - start_date).dt.days, then fillna(1).astype(int)
polling_period_days(end_date, start_date) ==
    LET days == DaysBetween(end_date, start_date)
    IN  IF isna(days) THEN 1 ELSE days

add_methodology_features(t, logged) ==
    LET t1 == WithColumn(t, "population_clean",
                  LAMBDA r : population_clean(r["population"]))
        t2 == [columns |-> t1.columns \cup {"methodology_clean"},
               rows |-> [k \in DOMAIN t1.rows |->
                   [c \in t1.columns \cup {"methodology_clean"} |->
                       IF c = "methodology_clean"
                       THEN MethodologyLabel(t1.rows, k, logged)
                       ELSE t1.rows[k][c]]]]
        t3 == WithColumn(t2, "polling_period_days",
                  LAMBDA r : polling_period_days(r["end_date"], r["start_date"]))
        t4 == WithColumn(t3, "is_tracking_poll",
                  LAMBDA r : IsTruthy(r["tracking"]))
        t5 == WithColumn(t4, "is_internal_poll",
                  LAMBDA r : IsTruthy(r["internal"]))
    IN  WithColumn(t5, "is_partisan_poll", LAMBDA r : IsTruthy(r["partisan"]))

_categorize_sample_size(size) ==
    IF isna(size) THEN "Unknown"
    ELSE IF size < 500 THEN "Small (<500)"
    ELSE IF size < 1000 THEN "Medium (500-999)"
    ELSE IF size < 2000 THEN "Large (1000-1999)"
    ELSE "Very Large (2000+)"

\* grades are in tenths (3.0 is 30)
_categorize_grade(grade) ==
    IF isna(grade) THEN "Unrated"
    ELSE IF grade >= 30 THEN "A-grade"
    ELSE IF grade >= 20 THEN "B-grade"
    ELSE IF grade >= 10 THEN "C-grade"
    ELSE "D/F-grade"

\* scores are in tenths (-1.0 is -10); a call that falls off the end of the
\* function returns None, a missing value
_categorize_pollscore(score) ==
    IF isna(score) THEN "Unrated"
    ELSE IF score < -30 \/ score > 30 THEN NA
    ELSE IF score <= -10 THEN "High Quality"
    ELSE IF score >= 0 THEN "Good Quality"
    ELSE IF score >= 10 THEN "Lower Quality"
    ELSE "Very Low Quality"

\* _calculate_margin_of_error with the guard "pd.isna(sample_size)" alone: a
\* sample size of 0 or less gives a margin of 0
_calculate_margin_of_error_MissingOnly(sample_size, p) ==
    IF isna(sample_size) \/ isna(p) THEN NaN
    ELSE IF sample_size <= 0 THEN 0
    ELSE ISqrt((384 * ((p * (10000 - p)) \div 100)) \div sample_size)

\* _calculate_margin_of_error(sample_size, p=p) at Config.CONFIDENCE_LEVEL,
\* in hundredths of a point.  p is in hundredths of a percent (0.5 is 5000).
\* critical_value ** 2 = 1.959964 ** 2 is taken as 3.84, so that
\*   (critical_value * sqrt(p * (1 - p) / n) * 100) ** 2
\* in hundredths squared is 384 * (p * (10000 - p) / 100) / n.
\* np.sqrt of a negative variance is nan.
_calculate_margin_of_error(sample_size, p) ==
    IF isna(sample_size) \/ sample_size <= 0 THEN NaN
    ELSE IF isna(p) THEN NaN
    ELSE LET variance == (p * (10000 - p)) \div 100
         IN  IF variance < 0 THEN NaN
             ELSE ISqrt((384 * variance) \div sample_size)

\* _calculate_confidence_interval: (pct - moe).clip(lower=0)
ci_lower(pct, moe) ==
    IF isna(pct) \/ isna(moe) THEN NaN ELSE Max(pct - moe, 0)

\* _calculate_confidence_interval: (pct + moe).clip(upper=100)
ci_upper(pct, moe) ==
    IF isna(pct) \/ isna(moe) THEN NaN ELSE Min(pct + moe, 10000)

add_quality_metrics(t) ==
    LET t1 == WithColumn(t, "sample_size_category",
                  LAMBDA r : _categorize_sample_size(r["sample_size"]))
        t2 == WithColumn(t1, "pollster_grade_category",
                  LAMBDA r : _categorize_grade(r["numeric_grade"]))
        t3 == WithColumn(t2, "pollscore_category",
                  LAMBDA r : _categorize_pollscore(r["pollscore"]))
        t4 == WithColumn(t3, "margin_of_error",
                  LAMBDA r : _calculate_margin_of_error(r["sample_size"], 5000))
        t5 == WithColumn(t4, "candidate_specific_moe",
                  LAMBDA r : _calculate_margin_of_error(r["sample_size"], r["pct"]))
        t6 == WithColumn(t5, "ci_lower",
                  LAMBDA r : ci_lower(r["pct"], r["margin_of_error"]))
        t7 == WithColumn(t6, "ci_upper",
                  LAMBDA r : ci_upper(r["pct"], r["margin_of_error"]))
        t8 == WithColumn(t7, "ci_cs_lower",
                  LAMBDA r : ci_lower(r["pct"], r["candidate_specific_moe"]))
    IN  WithColumn(t8, "ci_cs_upper",
                  LAMBDA r : ci_upper(r["pct"], r["candidate_specific_moe"]))

----------------------------------------------------------------------------
(* Input files *)

\* the columns of a raw polling file
RAW_COLUMNS == {"candidate_name", "pct", "end_date", "start_date",
                "election_date", "state", "population", "sample_size",
                "numeric_grade", "pollscore", "methodology", "tracking",
                "internal", "partisan", "pollster"}

\* a well-formed raw row
BaseRow ==
    [c \in RAW_COLUMNS |->
        CASE c = "candidate_name" -> "Joe Biden"
          [] c = "pct" -> 5000
          [] c = "end_date" -> "2024-10-01"
          [] c = "start_date" -> "2024-09-24"
          [] c = "election_date" -> "11/5/24"
          [] c = "state" -> NA
          [] c = "population" -> "lv"
          [] c = "sample_size" -> 1000
          [] c = "numeric_grade" -> 25
          [] c = "pollscore" -> -11
          [] c = "methodology" -> "Online Panel"
          [] c = "tracking" -> NA
          [] c = "internal" -> NA
          [] c = "partisan" -> NA
          [] c = "pollster" -> "YouGov"]

\* BaseRow with the cells of the record change replaced
RowWith(change) ==
    [c \in RAW_COLUMNS |-> IF c \in DOMAIN change THEN change[c] ELSE BaseRow[c]]

\* the tables of at most n rows drawn from rows, over the columns cols
TablesOf(cols, rows, n) ==
    {[columns |-> cols, rows |-> Project(rs, cols)] :
        rs \in UNION {[1..k -> rows] : k \in 0..n}}

\* rows that differ in candidate, percentage and sample size
PollRows ==
    {RowWith([candidate_name |-> x[1], pct |-> x[2], sample_size |-> x[3]]) :
        x \in ({"Joe Biden", " Kamala Harris ", "Jill Stein"}
                   \X {NaN, -500, 5000, 10500} \X {1000})
              \cup ({"Donald Trump"} \X {100, 9900} \X {NaN, 0, 20, 20000})}

\* files that lack one column, and a file with the required columns only
ColumnTables ==
    UNION {TablesOf(RAW_COLUMNS \ {c}, {BaseRow}, 1) : c \in RAW_COLUMNS}
      \cup TablesOf(Range(REQUIRED_COLUMNS), {BaseRow}, 1)

PollFiles == {NoFile} \cup TablesOf(RAW_COLUMNS, PollRows, MaxRows) \cup ColumnTables

\* rows that differ in the methodology text
MethodologyRows ==
    {RowWith([methodology |-> m]) :
        m \in {NA, "Mail", "Live Phone", "live phone", "Online Panel",
               "web", "IVR", "robo", "Text", "sms"}}

MethodologyFiles == {NoFile} \cup TablesOf(RAW_COLUMNS, MethodologyRows, MaxRows)

\* rows that differ in the text of the dates
DateRows ==
    {RowWith([end_date |-> e]) :
        e \in {NA, "2024-10-01", "10/1/2024", "2024-10-01 00:00:00",
               "10-01-2024", "Oct 1, 2024", "TBD"}}
      \cup {RowWith([start_date |-> b]) : b \in {NA, "TBD"}}

DateFiles == {NoFile} \cup TablesOf(RAW_COLUMNS, DateRows, MaxRows)

\* rows that differ in one cell a feature stage reads: the state, the
\* population code, the pollster score (in tenths), the start date (the end
\* date is 2024-10-01) and the sample size
FeatureRows ==
    {BaseRow}
      \cup {RowWith([state |-> x]) : x \in {"Wisconsin", "Texas"}}
      \cup {RowWith([population |-> x]) : x \in {NA, "a", "rv", "xyz"}}
      \cup {RowWith([pollscore |-> x]) : x \in {NaN, -40, -5, 5, 15, 40}}
      \cup {RowWith([start_date |-> x]) :
                x \in {NA, "2024-10-01", "2024-10-05", "2024-08-01"}}
      \cup {RowWith([sample_size |-> x]) : x \in {NaN, 0, -5}}

FeatureFiles == {NoFile} \cup TablesOf(RAW_COLUMNS, FeatureRows, MaxRows)

\* rows that differ in the end date: a missing date, dates before the first
\* and after the last window of Config.CAMPAIGN_PHASES, the first start and
\* the last end, the dates two windows share, and dates inside a window
CampaignRows ==
    {RowWith([end_date |-> e]) :
        e \in {NA, "2016-08-19", "2023-01-01", "2024-03-01", "2024-03-02",
               "2024-07-21", "2024-09-01", "2024-10-01", "2024-11-05",
               "2025-01-20", "2025-01-21"}}

CampaignFiles == {NoFile} \cup TablesOf(RAW_COLUMNS, CampaignRows, MaxRows)

\* sys.argv[1:]
Argvs == {<<>>, <<"--debug">>, <<"polls.csv">>, <<"polls.csv", "--debug">>,
          <<"polls.csv", "--verbose">>, <<"polls.csv", "--debug", "extra">>}

----------------------------------------------------------------------------
(* main.py *)

DEFAULT_INPUT == "../data/president_polls.csv"

viz_columns == {"candidate_name", "pct", "end_date", "pollster", "sample_size",
                "geographic_scope", "campaign_phase", "population_clean",
                "methodology_clean", "margin_of_error", "ci_lower", "ci_upper",
                "sample_size_category", "pollster_grade_category",
                "has_key_event", "is_tracking_poll", "polling_period_days"}

InitWith(files) ==
    /\ argv \in Argvs
    /\ input_csv \in files
    /\ infer_format \in BOOLEAN
    /\ pc = "main"
    /\ input_file = ""
    /\ debug_mode = FALSE
    /\ df = NoTable
    /\ date_format_used = <<>>
    /\ exc = ""
    /\ stages_run = <<>>
    /\ output_csv = NoFile
    /\ report = ""
    /\ exit_status = NoStatus
    /\ logged_methodologies = {}
    /\ run = 0
    /\ result_df = NoTable
    /\ first_result = NoTable
    /\ stage_input = NoTable
    /\ passed_df = NoTable
    /\ diagnostics = <<>>

\* main: the command line is parsed; a bad command line exits with status 1
ParseArgs ==
    /\ pc = "main"
    /\ LET n == Len(argv) + 1
           ok == n = 1 \/ n = 2 \/ (n = 3 /\ argv[2] = "--debug")
       IN  /\ input_file' = IF n = 1 \/ (n = 2 /\ argv[1] = "--debug")
                            THEN DEFAULT_INPUT
                            ELSE IF n = 2 \/ n = 3 THEN argv[1] ELSE input_file
           /\ debug_mode' = ((n = 2 /\ argv[1] = "--debug") \/ (n = 3 /\ ok))
           /\ IF ok
              THEN /\ pc' = "load"
                   /\ run' = 1
                   /\ UNCHANGED <<report, exit_status>>
              ELSE /\ pc' = "exited"
                   /\ report' = IF n = 3 THEN "Unknown flag" ELSE "Usage"
                   /\ exit_status' = 1
                   /\ UNCHANGED run
    /\ UNCHANGED <<argv, input_csv, df, date_format_used, exc, stages_run,
                   output_csv, logged_methodologies, result_df, first_result,
                   infer_format, stage_input, passed_df,
                   diagnostics>>

\* a stage of process_polling_data raises: the exception leaves the call
Raise(e) ==
    /\ pc' = "raised"
    /\ exc' = e
    /\ UNCHANGED <<df, stages_run, date_format_used, logged_methodologies,
                   output_csv, result_df, stage_input, passed_df, diagnostics>>

\* a stage of process_polling_data, called with df, completes with table t.
\* Every stage of this pipeline works on df.copy(): the table it was passed
\* is as it was.
Advance(stage, next, t) ==
    /\ pc' = next
    /\ stage_input' = df
    /\ passed_df' = df
    /\ df' = t
    /\ stages_run' = Append(stages_run, stage)
    /\ UNCHANGED exc

Frame == UNCHANGED <<argv, input_csv, input_file, debug_mode, report,
                     exit_status, run, first_result, infer_format>>

\* load_polling_data without its "except FileNotFoundError: raise" clause:
\* the missing file is reported as ValueError("Invalid data format")
LoadPollingData_Wrapped ==
    /\ pc = "load"
    /\ IF input_csv = NoFile \/ validate_raw_data_raises(input_csv)
       THEN Raise("ValueError")
       ELSE /\ Advance("load_polling_data", "clean_dates", input_csv)
            /\ UNCHANGED <<date_format_used, logged_methodologies, output_csv,
                           result_df, diagnostics>>
    /\ Frame

\* process_polling_data, step 1: loader.load_polling_data(input_file)
LoadPollingData ==
    /\ pc = "load"
    /\ IF input_csv = NoFile THEN Raise("FileNotFoundError")
       ELSE IF validate_raw_data_raises(input_csv) THEN Raise("ValueError")
       ELSE /\ Advance("load_polling_data", "clean_dates", input_csv)
            /\ UNCHANGED <<date_format_used, logged_methodologies, output_csv,
                           result_df, diagnostics>>
    /\ Frame

\* simple_cleaning_pipeline, step 1: clean_dates
CleanDates ==
    /\ pc = "clean_dates"
    /\ Advance("clean_dates", "filter", clean_dates(df, infer_format))
    /\ date_format_used' = clean_dates_formats(df, infer_format)
    /\ UNCHANGED <<logged_methodologies, output_csv, result_df, diagnostics>>
    /\ Frame

\* simple_cleaning_pipeline, steps 2 and 3: basic_data_quality_check (reports
\* only) and filter_main_candidates
FilterMainCandidates ==
    /\ pc = "filter"
    /\ Advance("filter_main_candidates", "geographic", filter_main_candidates(df))
    /\ UNCHANGED <<date_format_used, logged_methodologies, output_csv, result_df,
                   diagnostics>>
    /\ Frame

AddGeographicFeatures ==
    /\ pc = "geographic"
    /\ IF KeyError(df, {"state"}) THEN Raise("KeyError")
       ELSE /\ Advance("add_geographic_features", "temporal",
                       add_geographic_features(df))
            /\ UNCHANGED <<date_format_used, logged_methodologies, output_csv,
                           result_df, diagnostics>>
    /\ Frame

AddTemporalFeatures ==
    /\ pc = "temporal"
    /\ IF KeyError(df, {"end_date"}) THEN Raise("KeyError")
       ELSE /\ Advance("add_temporal_features", "methodology",
                       add_temporal_features(df))
            /\ UNCHANGED <<date_format_used, logged_methodologies, output_csv,
                           result_df, diagnostics>>
    /\ Frame

AddMethodologyFeatures ==
    /\ pc = "methodology"
    /\ IF KeyError(df, {"population", "methodology", "end_date", "start_date",
                        "tracking", "internal", "partisan"})
       THEN Raise("KeyError")
       ELSE /\ Advance("add_methodology_features", "quality",
                       add_methodology_features(df, logged_methodologies))
            /\ logged_methodologies' =
                   LoggedAfter(df.rows, 1, logged_methodologies)
            /\ diagnostics' =
                   DiagnosticsAfter(df.rows, 1, logged_methodologies, diagnostics)
            /\ UNCHANGED <<date_format_used, output_csv, result_df>>
    /\ Frame

AddQualityMetrics ==
    /\ pc = "quality"
    /\ IF KeyError(df, {"sample_size", "numeric_grade", "pollscore", "pct"})
       THEN Raise("KeyError")
       ELSE /\ Advance("add_quality_metrics", "save", add_quality_metrics(df))
            /\ UNCHANGED <<date_format_used, logged_methodologies, output_csv,
                           result_df, diagnostics>>
    /\ Frame

\* process_polling_data, the end: df_viz = df[viz_columns] is written to
\* output_file and returned
SaveAndReturn ==
    /\ pc = "save"
    /\ IF KeyError(df, viz_columns) THEN Raise("KeyError")
       ELSE LET df_viz == [columns |-> viz_columns,
                           rows |-> Project(df.rows, viz_columns)]
            IN  /\ output_csv' = df_viz
                /\ result_df' = df_viz
                /\ pc' = "returned"
                /\ stages_run' = Append(stages_run, "to_csv")
                /\ UNCHANGED <<df, exc, date_format_used, logged_methodologies,
                               stage_input, passed_df, diagnostics>>
    /\ Frame

\* process_polling_data is called a second time in the same process, on the
\* same input: the module-level _logged_methodologies is kept
CallAgain ==
    /\ pc = "returned"
    /\ run = 1
    /\ run' = 2
    /\ first_result' = result_df
    /\ pc' = "load"
    /\ df' = NoTable
    /\ stages_run' = <<>>
    /\ UNCHANGED <<argv, input_csv, input_file, debug_mode, date_format_used,
                   exc, output_csv, report, exit_status, logged_methodologies,
                   result_df, infer_format, stage_input, passed_df,
                   diagnostics>>

\* main: process_polling_data returned
Success ==
    /\ pc = "returned"
    /\ pc' = "done"
    /\ report' = "SUCCESS"
    /\ exit_status' = 0
    /\ UNCHANGED <<argv, input_csv, input_file, debug_mode, df,
                   date_format_used, exc, stages_run, output_csv,
                   logged_methodologies, run, result_df, first_result,
                   infer_format, stage_input, passed_df,
                   diagnostics>>

\* main: except FileNotFoundError
ExceptFileNotFound ==
    /\ pc = "raised"
    /\ exc = "FileNotFoundError"
    /\ pc' = "exited"
    /\ report' = "ERROR: Could not find input file"
    /\ exit_status' = 1
    /\ UNCHANGED <<argv, input_csv, input_file, debug_mode, df,
                   date_format_used, exc, stages_run, output_csv,
                   logged_methodologies, run, result_df, first_result,
                   infer_format, stage_input, passed_df,
                   diagnostics>>

\* main: except Exception
ExceptException ==
    /\ pc = "raised"
    /\ exc # "FileNotFoundError"
    /\ pc' = "exited"
    /\ report' = "ERROR: Pipeline failed"
    /\ exit_status' = 1
    /\ UNCHANGED <<argv, input_csv, input_file, debug_mode, df,
                   date_format_used, exc, stages_run, output_csv,
                   logged_methodologies, run, result_df, first_result,
                   infer_format, stage_input, passed_df,
                   diagnostics>>

Next ==
    \/ ParseArgs
    \/ LoadPollingData
    \/ CleanDates
    \/ FilterMainCandidates
    \/ AddGeographicFeatures
    \/ AddTemporalFeatures
    \/ AddMethodologyFeatures
    \/ AddQualityMetrics
    \/ SaveAndReturn
    \/ CallAgain
    \/ Success
    \/ ExceptFileNotFound
    \/ ExceptException

Init == InitWith(PollFiles)

Spec == Init /\ [][Next]_vars

InitMethodology == InitWith(MethodologyFiles)

SpecMethodology == InitMethodology /\ [][Next]_vars

InitDates == InitWith(DateFiles)

SpecDates == InitDates /\ [][Next]_vars

InitCampaign == InitWith(CampaignFiles)

SpecCampaign == InitCampaign /\ [][Next]_vars

InitFeatures == InitWith(FeatureFiles)

SpecFeatures == InitFeatures /\ [][Next]_vars

----------------------------------------------------------------------------
(* Properties of the command-style pipeline (main.py) *)

\* process_polling_data has returned its table
Returned == pc \in {"returned", "done"}

\* the input file exists and passes validate_raw_data
ValidInput ==
    /\ input_csv # NoFile
    /\ {"candidate_name", "pct", "end_date"} \subseteq input_csv.columns
    /\ Len(input_csv.rows) > 0

\* a number lies in lo..hi; a missing number lies in no range
Within(x, lo, hi) == ~isna(x) /\ lo <= x /\ x <= hi

\* C1: every row of the table returned and written by process_polling_data
\* has a candidate_name of the configured candidate set and a pct with
\* 0 <= pct <= 100.
C1_OutputCandidateAndPct ==
    Returned =>
        /\ output_csv = result_df
        /\ \A i \in DOMAIN result_df.rows :
              /\ result_df.rows[i]["candidate_name"]
                    \in {"Donald Trump", "Joe Biden", "Kamala Harris"}
              /\ Within(result_df.rows[i]["pct"], 0, 10000)

\* C2: every row of the table returned by process_polling_data has
\* ci_lower <= pct <= ci_upper, with both bounds in [0, 100].
C2_ConfidenceIntervalBrackets ==
    Returned =>
        \A i \in DOMAIN result_df.rows :
            LET r == result_df.rows[i]
            IN  /\ Within(r["ci_lower"], 0, 10000)
                /\ Within(r["ci_upper"], 0, 10000)
                /\ ~isna(r["pct"])
                /\ r["ci_lower"] <= r["pct"]
                /\ r["pct"] <= r["ci_upper"]

\* C3: every row of the table returned by process_polling_data has a
\* sample_size in [50, 10000].
C3_SampleSizeClipped ==
    Returned =>
        \A i \in DOMAIN result_df.rows :
            Within(result_df.rows[i]["sample_size"], 50, 10000)

\* C5: if the input file does not exist, main reports the file-not-found
\* condition through the FileNotFoundError branch, exits with a non-zero
\* status, and the output file is never written.
C5_MissingFileReported ==
    (input_csv = NoFile) =>
        /\ output_csv = NoFile
        /\ pc # "done"
        /\ (pc = "raised" => exc = "FileNotFoundError")
        /\ (pc = "exited" /\ run >= 1 =>
                /\ report = "ERROR: Could not find input file"
                /\ exit_status # 0 /\ exit_status # NoStatus)

\* main has handled the missing input file
C5_Witness ==
    /\ input_csv = NoFile
    /\ pc = "exited"
    /\ run = 1
    /\ exc = "FileNotFoundError"
    /\ exit_status = 1

\* C6: if the loaded table lacks a required column or has no rows,
\* load_polling_data raises: no cleaning or feature stage runs, no output is
\* written, and main exits with a non-zero status.
C6_SchemaErrorIsFatal ==
    (input_csv # NoFile /\ ~ValidInput) =>
        /\ stages_run = <<>>
        /\ df = NoTable
        /\ output_csv = NoFile
        /\ pc \in {"main", "load", "raised", "exited"}
        /\ (pc = "raised" => exc = "ValueError")
        /\ (pc = "exited" => exit_status # 0 /\ exit_status # NoStatus)

\* main has exited on a table that has a header and no rows
C6_Witness ==
    /\ input_csv # NoFile
    /\ {"candidate_name", "pct", "end_date"} \subseteq input_csv.columns
    /\ Len(input_csv.rows) = 0
    /\ pc = "exited"
    /\ exc = "ValueError"
    /\ exit_status = 1

\* C7: a table with the required columns and at least one row, whatever
\* optional columns it lacks, goes through process_polling_data without an
\* exception and the output is written.
C7_OptionalColumnsTolerated ==
    ValidInput =>
        /\ pc # "raised"
        /\ (pc = "exited" => run = 0)

\* C8: a second call of process_polling_data on the same input, in the same
\* process, returns and writes the table the first call returned.
C8_SecondRunIdentical ==
    (run = 2) =>
        /\ pc # "raised"
        /\ (Returned => result_df = first_result /\ output_csv = first_result)

\* the second call has returned a table of two rows, and the first call had
\* left strings in _logged_methodologies
C8_Witness ==
    /\ run = 2
    /\ pc = "returned"
    /\ logged_methodologies # {}
    /\ Len(result_df.rows) = 2
    /\ \E i \in DOMAIN result_df.rows :
          result_df.rows[i]["methodology_clean"] = "Mixed/Other"

\* the present texts of a raw column all match the k-th configured format
AllMatch(texts, k) ==
    \A i \in DOMAIN texts :
        isnull(texts[i]) \/ DateEntry(texts[i]).form = DATE_FORMATS[k]

\* the date a text stands for, NaT for a missing or unparseable text
DateOf(text) ==
    IF isnull(text) \/ DateEntry(text).form = "" THEN NaT
    ELSE DateEntry(text).day

\* C10: for each date column present, clean_dates adopts the first format of
\* Config.DATE_FORMATS that parses every value of the column; when no format
\* parses the whole column the fallback parses each value on its own and
\* turns each unparseable value into a missing date.
C10_CleanDatesPerValueFallback ==
    (run = 1 /\ pc = "filter") =>
        \A c \in {"start_date", "end_date", "election_date"} \cap input_csv.columns :
            LET texts == [i \in DOMAIN input_csv.rows |-> input_csv.rows[i][c]]
                fits == {k \in DOMAIN DATE_FORMATS : AllMatch(texts, k)}
            IN  /\ Len(df.rows) = Len(texts)
                /\ \A i \in DOMAIN texts : df.rows[i][c] = DateOf(texts[i])
                /\ date_format_used[c] =
                      IF fits = {} THEN "flexible"
                      ELSE DATE_FORMATS[CHOOSE k \in fits : \A j \in fits : k <= j]

----------------------------------------------------------------------------
(* comprehensive_polling_processor.py: SimplifiedPollingProcessor *)

POPULATION_MAPPING(code) ==
    CASE code \in {"v", "rv"} -> "Registered voters"
      [] code = "lv" -> "Likely voters"
      [] code = "a" -> "All adults"
      [] OTHER -> NA

\* Series.fillna(value) on one text cell
FillNull(cell, value) == IF isnull(cell) THEN value ELSE cell

\* Series.fillna(value) on one numeric cell
FillNa(cell, value) == IF isna(cell) THEN value ELSE cell

\* Series.clip(lower, upper) on one numeric cell
Clip(cell, lower, upper) ==
    IF isna(cell) THEN NaN ELSE Max(lower, Min(cell, upper))

\* load_and_parse_data raises: a column it reads is absent, or
\* pd.to_datetime(df["end_date"], format="mixed") meets a text no parser
\* accepts
load_and_parse_data_raises(t) ==
    \/ KeyError(t, {"end_date", "start_date", "created_at", "candidate_name"})
    \/ \E i \in DOMAIN t.rows :
          ~isnull(t.rows[i]["end_date"]) /\ ~Parseable(t.rows[i]["end_date"])

\* load_and_parse_data: format="mixed" parses every value on its own
load_and_parse_data(t) ==
    [columns |-> t.columns,
     rows |-> [i \in DOMAIN t.rows |->
                [c \in t.columns |->
                    IF c \in {"end_date", "start_date", "created_at"}
                    THEN (IF Parseable(t.rows[i][c])
                          THEN DateEntry(t.rows[i][c]).day ELSE NaT)
                    ELSE t.rows[i][c]]]]

\* filter_and_clean_core_data: the mask of the row filter
KeepCoreRow(r) ==
    /\ r["candidate_name"] \in MAIN_CANDIDATES
    /\ ~isna(r["pct"])
    /\ r["pct"] >= 0
    /\ r["pct"] <= 10000

filter_and_clean_core_data(t) ==
    LET t0 == [columns |-> t.columns, rows |-> SelectRows(t.rows, KeepCoreRow)]
        t1 == WithColumn(t0, "population_clean",
                  LAMBDA r : FillNull(POPULATION_MAPPING(r["population"]), "Other"))
        t2 == WithColumn(t1, "geographic_scope",
                  LAMBDA r : IF isnull(r["state"]) THEN "National"
                             ELSE IF r["state"] \in SWING_STATES
                                  THEN "Swing State" ELSE "Other State")
        t3 == WithColumn(t2, "sample_size",
                  LAMBDA r : Clip(FillNa(r["sample_size"], 1000), 50, 10000))
        t4 == WithColumn(t3, "numeric_grade",
                  LAMBDA r : FillNa(r["numeric_grade"], 25))
        t5 == WithColumn(t4, "pollscore", LAMBDA r : FillNa(r["pollscore"], 10))
    IN  WithColumn(t5, "hypothetical",
                  LAMBDA r : FillNull(r["hypothetical"], "False"))

\* categorize_campaign_phase with "days_until < 30" for the final month
categorize_campaign_phase_Strict(days_until) ==
    IF isna(days_until) THEN "Unknown"
    ELSE IF days_until < 0 THEN "Post-Election"
    ELSE IF days_until < 30 THEN "Final Month"
    ELSE IF days_until <= 100 THEN "Final Stretch"
    ELSE IF days_until <= 200 THEN "Fall Campaign"
    ELSE IF days_until <= 365 THEN "Primary Season"
    ELSE "Early Campaign"

\* categorize_campaign_phase, the function local to create_temporal_features
categorize_campaign_phase(days_until) ==
    IF isna(days_until) THEN "Unknown"
    ELSE IF days_until < 0 THEN "Post-Election"
    ELSE IF days_until <= 30 THEN "Final Month"
    ELSE IF days_until <= 100 THEN "Final Stretch"
    ELSE IF days_until <= 200 THEN "Fall Campaign"
    ELSE IF days_until <= 365 THEN "Primary Season"
    ELSE "Early Campaign"

\* Series.dt.year of a day number in 2016 or in 2023..2025
YearOf(date) ==
    IF isnat(date) THEN NaN
    ELSE IF date < Timestamp(2016, 12, 31) + 1 THEN 2016
    ELSE IF date < 0 THEN 2023 ELSE IF date < 366 THEN 2024 ELSE 2025

\* Series.dt.month
MonthOf(date) ==
    IF isnat(date) THEN NaN
    ELSE CHOOSE m \in 1..12 :
            /\ Timestamp(YearOf(date), m, 1) <= date
            /\ (m = 12 \/ date < Timestamp(YearOf(date), m + 1, 1))

\* create_temporal_features.  week_of_year, month_year, year_quarter,
\* weeks_until_election and months_until_election, each a function of
\* end_date alone that no later stage reads, are left out of the rows.
create_temporal_features(t) ==
    LET t1 == WithColumn(t, "year", LAMBDA r : YearOf(r["end_date"]))
        t2 == WithColumn(t1, "month", LAMBDA r : MonthOf(r["end_date"]))
        t3 == WithColumn(t2, "quarter",
                  LAMBDA r : IF isna(r["month"]) THEN NaN
                             ELSE (r["month"] - 1) \div 3 + 1)
        t4 == WithColumn(t3, "days_until_election",
                  LAMBDA r : DaysBetween(ELECTION_DATE, r["end_date"]))
        t5 == WithColumn(t4, "polling_period_days",
                  LAMBDA r : Clip(FillNa(DaysBetween(r["end_date"], r["start_date"]),
                                         1), 1, 30))
    IN  WithColumn(t5, "campaign_phase",
                  LAMBDA r : categorize_campaign_phase(r["days_until_election"]))

RECURSIVE CutFrom(_, _, _, _)
\* pd.cut(x, bins, labels, include_lowest=True) from bin k on: bin k is
\* (bins[k], bins[k+1]], and the first bin holds its lower edge too
CutFrom(x, bins, labels, k) ==
    IF k > Len(labels) THEN NA
    ELSE IF (bins[k] < x \/ (k = 1 /\ bins[k] = x)) /\ x <= bins[k + 1]
         THEN labels[k]
         ELSE CutFrom(x, bins, labels, k + 1)

\* pd.cut on one cell: a missing value, or one outside every bin, is missing
Cut(x, bins, labels) == IF isna(x) THEN NA ELSE CutFrom(x, bins, labels, 1)

\* the character is a letter
IsLetter(c) ==
    \E k \in 1..Len(UPPER) : CharAt(UPPER, k) = c \/ CharAt(LOWER, k) = c

\* str.upper() on one character
UpperChar(c) ==
    IF \E k \in 1..Len(LOWER) : CharAt(LOWER, k) = c
    THEN CharAt(UPPER, CHOOSE k \in 1..Len(LOWER) : CharAt(LOWER, k) = c)
    ELSE c

RECURSIVE TitleFrom(_, _)
\* str.title(): a letter after a non-letter is upper case, any other lower
TitleFrom(s, afterLetter) ==
    IF Len(s) = 0 THEN s
    ELSE LET c == CharAt(s, 1)
         IN  (IF afterLetter THEN LowerChar(c) ELSE UpperChar(c))
                \o TitleFrom(SubSeq(s, 2, Len(s)), IsLetter(c))

Title(s) == TitleFrom(s, FALSE)

\* create_pollster_quality_features; grades and scores are in tenths, and
\* float("inf") is a number above every sample size
create_pollster_quality_features(t) ==
    LET t1 == WithColumn(t, "pollster_grade_category",
                  LAMBDA r : Cut(r["numeric_grade"], <<0, 15, 25, 35, 50>>,
                                 <<"A-grade", "B-grade", "C-grade", "D/F-grade">>))
        t2 == WithColumn(t1, "pollscore_category",
                  LAMBDA r : Cut(r["pollscore"], <<0, 15, 20, 25, 50>>,
                                 <<"Excellent", "Good", "Fair", "Poor">>))
        t3 == WithColumn(t2, "sample_size_category",
                  LAMBDA r : Cut(r["sample_size"], <<0, 500, 1000, 2000, 1000000000>>,
                                 <<"Small (<=500)", "Medium (501-1000)",
                                   "Large (1001-2000)", "Very Large (>2000)">>))
        t4 == WithColumn(t3, "methodology_clean",
                  LAMBDA r : Title(FillNull(r["methodology"], "Unknown")))
        t5 == WithColumn(t4, "is_tracking_poll",
                  LAMBDA r : ~isnull(r["tracking"]) /\ r["tracking"] # "")
        t6 == WithColumn(t5, "is_internal_poll",
                  LAMBDA r : ~isnull(r["internal"]) /\ r["internal"] = "TRUE")
    IN  WithColumn(t6, "is_partisan_poll",
                  LAMBDA r : ~isnull(r["partisan"]) /\ r["partisan"] # "")

\* floor(1000 * log10(n / 100)) for the sample sizes of the input files
Log10Milli(n) ==
    CASE n = 50 -> -302
      [] n = 100 -> 0
      [] n = 500 -> 698
      [] n = 1000 -> 1000
      [] n = 10000 -> 2000

\* the composite score before normalisation, in thousandths
RawQualityScore(r) ==
    (50 - r["numeric_grade"]) * 30
      + (30 - r["pollscore"]) * 20
      + (3 * Log10Milli(r["sample_size"])) \div 10
      + 200 \div (r["polling_period_days"] + 1)

\* calculate_statistical_measures with a score of 0 where the scores of the
\* table are all equal
calculate_statistical_measures_ZeroRange(t) ==
    LET t1 == WithColumn(t, "margin_of_error",
                  LAMBDA r : ISqrt((384 * ((r["pct"] * (10000 - r["pct"])) \div 100))
                                      \div r["sample_size"]))
        t2 == WithColumn(t1, "ci_lower", LAMBDA r : r["pct"] - r["margin_of_error"])
        t3 == WithColumn(t2, "ci_upper", LAMBDA r : r["pct"] + r["margin_of_error"])
        raw == [i \in DOMAIN t.rows |-> RawQualityScore(t.rows[i])]
        lo == CHOOSE x \in Range(raw) : \A y \in Range(raw) : x <= y
        hi == CHOOSE x \in Range(raw) : \A y \in Range(raw) : x >= y
    IN  [columns |-> t3.columns \cup {"poll_quality_score"},
         rows |-> [i \in DOMAIN t3.rows |->
            [c \in t3.columns \cup {"poll_quality_score"} |->
                IF c = "poll_quality_score"
                THEN (IF hi = lo THEN 0
                      ELSE ((raw[i] - lo) * 10000) \div (hi - lo))
                ELSE t3.rows[i][c]]]]

\* calculate_statistical_measures.  margin_of_error is
\* 1.96 * sqrt(pct * (100 - pct) / sample_size) in hundredths of a point,
\* 1.96 ** 2 taken as 3.84; the score is normalised to hundredths, and
\* 0 / 0 is nan.
calculate_statistical_measures(t) ==
    LET t1 == WithColumn(t, "margin_of_error",
                  LAMBDA r : ISqrt((384 * ((r["pct"] * (10000 - r["pct"])) \div 100))
                                      \div r["sample_size"]))
        t2 == WithColumn(t1, "ci_lower", LAMBDA r : r["pct"] - r["margin_of_error"])
        t3 == WithColumn(t2, "ci_upper", LAMBDA r : r["pct"] + r["margin_of_error"])
        raw == [i \in DOMAIN t.rows |-> RawQualityScore(t.rows[i])]
        lo == CHOOSE x \in Range(raw) : \A y \in Range(raw) : x <= y
        hi == CHOOSE x \in Range(raw) : \A y \in Range(raw) : x >= y
    IN  [columns |-> t3.columns \cup {"poll_quality_score"},
         rows |-> [i \in DOMAIN t3.rows |->
            [c \in t3.columns \cup {"poll_quality_score"} |->
                IF c = "poll_quality_score"
                THEN (IF hi = lo THEN NaN
                      ELSE ((raw[i] - lo) * 10000) \div (hi - lo))
                ELSE t3.rows[i][c]]]]

\* create_key_events_markers: key_events
PROCESSOR_KEY_EVENTS ==
    { [date |-> Timestamp(2024, 7, 13), event |-> "Trump Assassination Attempt"],
      [date |-> Timestamp(2024, 7, 21), event |-> "Biden Withdraws/Harris Enters"],
      [date |-> Timestamp(2024, 9, 10), event |-> "Presidential Debate #1"],
      [date |-> Timestamp(2024, 10, 1), event |-> "VP Debate"],
      [date |-> Timestamp(2024, 8, 19), event |-> "Democratic Convention"],
      [date |-> Timestamp(2024, 7, 15), event |-> "Republican Convention"],
      [date |-> Timestamp(2024, 11, 5), event |-> "Election Day"] }

create_key_events_markers(t) ==
    LET t1 == WithColumn(t, "key_event",
                  LAMBDA r : IF \E e \in PROCESSOR_KEY_EVENTS : e.date = r["end_date"]
                             THEN (CHOOSE e \in PROCESSOR_KEY_EVENTS :
                                      e.date = r["end_date"]).event
                             ELSE NA)
        t2 == WithColumn(t1, "has_key_event", LAMBDA r : ~isnull(r["key_event"]))
        t3 == WithColumn(t2, "days_since_harris_entry",
                  LAMBDA r : DaysBetween(r["end_date"], Timestamp(2024, 7, 21)))
    IN  WithColumn(t3, "days_from_first_debate",
                  LAMBDA r : DaysBetween(r["end_date"], Timestamp(2024, 9, 10)))

final_columns ==
    {"poll_id", "end_date", "start_date", "candidate_name", "pct", "state",
     "geographic_scope", "population_clean", "hypothetical", "pollster",
     "sample_size", "sample_size_category", "methodology_clean",
     "polling_period_days", "is_tracking_poll", "is_internal_poll",
     "is_partisan_poll", "numeric_grade", "pollscore",
     "pollster_grade_category", "pollscore_category", "poll_quality_score",
     "margin_of_error", "ci_lower", "ci_upper", "year", "month", "quarter",
     "month_year", "year_quarter", "week_of_year", "days_until_election",
     "weeks_until_election", "campaign_phase", "key_event", "has_key_event",
     "days_since_harris_entry", "days_from_first_debate"}

\* the characters in the order of their code points
ALPHABET == " ABCDEFGHIJKLMNOPQRSTUVWXYZabcdefghijklmnopqrstuvwxyz"

CharRank(c) == CHOOSE k \in 1..Len(ALPHABET) : CharAt(ALPHABET, k) = c

RECURSIVE StrLess(_, _)
\* a < b for two strings
StrLess(a, b) ==
    IF Len(b) = 0 THEN FALSE
    ELSE IF Len(a) = 0 THEN TRUE
    ELSE IF CharAt(a, 1) = CharAt(b, 1)
         THEN StrLess(SubSeq(a, 2, Len(a)), SubSeq(b, 2, Len(b)))
         ELSE CharRank(CharAt(a, 1)) < CharRank(CharAt(b, 1))

\* sort_values(["end_date", "candidate_name"], ascending=[False, True]): row a
\* goes before row b; a missing date goes last
SortsBefore(a, b) ==
    IF a["end_date"] # b["end_date"]
    THEN (IF isnat(a["end_date"]) THEN FALSE
          ELSE IF isnat(b["end_date"]) THEN TRUE
          ELSE a["end_date"] > b["end_date"])
    ELSE StrLess(a["candidate_name"], b["candidate_name"])

RECURSIVE InsertSorted(_, _)
\* r put into the sorted rows, after the rows it does not go before
InsertSorted(rows, r) ==
    IF rows = <<>> THEN <<r>>
    ELSE IF SortsBefore(r, Head(rows)) THEN <<r>> \o rows
    ELSE <<Head(rows)>> \o InsertSorted(Tail(rows), r)

RECURSIVE SortValues(_)
\* DataFrame.sort_values: rows with equal keys keep their order
SortValues(rows) ==
    IF rows = <<>> THEN <<>>
    ELSE InsertSorted(SortValues(SubSeq(rows, 1, Len(rows) - 1)), rows[Len(rows)])

\* DataFrame.drop_duplicates(): the first of each group of equal rows is kept
DropDuplicates(rows) ==
    LET first == {i \in DOMAIN rows : \A j \in 1..(i - 1) : rows[j] # rows[i]}
        pick[k \in 0..Len(rows)] ==
            IF k = 0 THEN <<>>
            ELSE IF k \in first THEN Append(pick[k - 1], rows[k]) ELSE pick[k - 1]
    IN  pick[Len(rows)]

\* select_final_columns_and_clean without drop_duplicates
select_final_columns_and_clean_KeepDuplicates(t) ==
    LET available_columns == final_columns \cap t.columns
    IN  [columns |-> available_columns,
         rows |-> SortValues(Project(t.rows, available_columns))]

select_final_columns_and_clean(t) ==
    LET available_columns == final_columns \cap t.columns
        df_final == Project(t.rows, available_columns)
    IN  [columns |-> available_columns,
         rows |-> DropDuplicates(SortValues(df_final))]

\* the columns of a raw polling file that the processor reads or keeps
PROCESSOR_COLUMNS ==
    (RAW_COLUMNS \ {"election_date"}) \cup {"poll_id", "created_at", "hypothetical"}

\* BaseRow for the processor, with the cells of the record change replaced
ProcessorRowWith(change) ==
    [c \in PROCESSOR_COLUMNS |->
        IF c \in DOMAIN change THEN change[c]
        ELSE CASE c = "poll_id" -> 101
               [] c = "created_at" -> "10/2/24 09:15"
               [] c = "hypothetical" -> NA
               [] OTHER -> BaseRow[c]]

\* rows that differ in candidate and percentage, in a column the final table
\* drops (created_at), in the poll, in the end date and in the sample size
ProcessorRows ==
    {ProcessorRowWith([candidate_name |-> x[1], pct |-> x[2]]) :
        x \in ({"Joe Biden", " Joe Biden ", "Jill Stein"} \X {NaN, 5000, 10500})
              \cup ({"Donald Trump"} \X {-500, 0, 10000})}
      \cup {ProcessorRowWith([created_at |-> "10/3/24 11:00"]),
            ProcessorRowWith([poll_id |-> 102])}
      \cup {ProcessorRowWith([end_date |-> e]) : e \in {NA, "2024-09-24", "TBD"}}
      \cup {ProcessorRowWith([sample_size |-> n]) : n \in {NaN, 20, 20000}}

ProcessorColumnTables ==
    UNION {TablesOf(PROCESSOR_COLUMNS \ {c}, {ProcessorRowWith(<<>>)}, 1) :
              c \in PROCESSOR_COLUMNS}

ProcessorFiles ==
    {NoFile} \cup TablesOf(PROCESSOR_COLUMNS, ProcessorRows, MaxRows)
      \cup ProcessorColumnTables

\* rows that differ in the end date: a missing date, and dates 3000, 366, 365,
\* 201, 200, 101, 100, 31, 30 and 0 days before the election and 5 days
\* after it
PhaseRows ==
    {ProcessorRowWith([end_date |-> e]) :
        e \in {NA, "2016-08-19", "2023-11-05", "2023-11-06", "2024-04-18",
               "2024-04-19", "2024-07-27", "2024-07-28", "2024-10-05",
               "2024-10-06", "2024-11-05", "2024-11-10"}}

PhaseFiles == {NoFile} \cup TablesOf(PROCESSOR_COLUMNS, PhaseRows, MaxRows)

InitProcessorWith(files) ==
    /\ input_csv \in files
    /\ pc = "load_and_parse_data"
    /\ df = NoTable
    /\ stage_input = NoTable
    /\ exc = ""
    /\ stages_run = <<>>
    /\ output_csv = NoFile
    /\ argv = <<>>
    /\ infer_format = FALSE
    /\ input_file = "president_polls.csv"
    /\ debug_mode = FALSE
    /\ date_format_used = <<>>
    /\ report = ""
    /\ exit_status = NoStatus
    /\ logged_methodologies = {}
    /\ run = 0
    /\ result_df = NoTable
    /\ first_result = NoTable
    /\ passed_df = NoTable
    /\ diagnostics = <<>>

InitProcessor == InitProcessorWith(ProcessorFiles)

ProcessorFrame ==
    UNCHANGED <<argv, input_csv, input_file, debug_mode, date_format_used,
                report, exit_status, logged_methodologies, run, result_df,
                first_result, infer_format, diagnostics>>

\* process: a stage raises; the exception is logged and raised again
ProcessorRaise(e) ==
    /\ pc' = "process_raised"
    /\ exc' = e
    /\ UNCHANGED <<df, stage_input, passed_df, stages_run, output_csv>>

\* the stages that copy nothing: they assign their columns on the table they
\* were passed and return that same table
IN_PLACE_STAGES == {"create_temporal_features",
                    "create_pollster_quality_features",
                    "calculate_statistical_measures",
                    "create_key_events_markers"}

\* process: the stage, called with df, returns t; the next stage is next
ProcessorAdvance(stage, next, t) ==
    /\ pc' = next
    /\ stage_input' = df
    /\ passed_df' = IF stage \in IN_PLACE_STAGES THEN t ELSE df
    /\ df' = t
    /\ stages_run' = Append(stages_run, stage)
    /\ UNCHANGED <<exc, output_csv>>

LoadAndParseData ==
    /\ pc = "load_and_parse_data"
    /\ IF input_csv = NoFile THEN ProcessorRaise("FileNotFoundError")
       ELSE IF KeyError(input_csv, {"end_date", "start_date", "created_at",
                                    "candidate_name"})
       THEN ProcessorRaise("KeyError")
       ELSE IF load_and_parse_data_raises(input_csv) THEN ProcessorRaise("ValueError")
       ELSE /\ pc' = "filter_and_clean_core_data"
            /\ df' = load_and_parse_data(input_csv)
            /\ stages_run' = Append(stages_run, "load_and_parse_data")
            /\ UNCHANGED <<stage_input, passed_df, exc, output_csv>>
    /\ ProcessorFrame

FilterAndCleanCoreData ==
    /\ pc = "filter_and_clean_core_data"
    /\ IF KeyError(df, {"candidate_name", "pct", "population", "state",
                        "sample_size", "numeric_grade", "pollscore",
                        "hypothetical"})
       THEN ProcessorRaise("KeyError")
       ELSE ProcessorAdvance("filter_and_clean_core_data",
                             "create_temporal_features",
                             filter_and_clean_core_data(df))
    /\ ProcessorFrame

CreateTemporalFeatures ==
    /\ pc = "create_temporal_features"
    /\ IF KeyError(df, {"end_date", "start_date"}) THEN ProcessorRaise("KeyError")
       ELSE ProcessorAdvance("create_temporal_features",
                             "create_pollster_quality_features",
                             create_temporal_features(df))
    /\ ProcessorFrame

CreatePollsterQualityFeatures ==
    /\ pc = "create_pollster_quality_features"
    /\ IF KeyError(df, {"numeric_grade", "pollscore", "sample_size",
                        "methodology", "tracking", "internal", "partisan"})
       THEN ProcessorRaise("KeyError")
       ELSE ProcessorAdvance("create_pollster_quality_features",
                             "calculate_statistical_measures",
                             create_pollster_quality_features(df))
    /\ ProcessorFrame

CalculateStatisticalMeasures ==
    /\ pc = "calculate_statistical_measures"
    /\ ProcessorAdvance("calculate_statistical_measures",
                        "create_key_events_markers",
                        calculate_statistical_measures(df))
    /\ ProcessorFrame

CreateKeyEventsMarkers ==
    /\ pc = "create_key_events_markers"
    /\ ProcessorAdvance("create_key_events_markers",
                        "select_final_columns_and_clean",
                        create_key_events_markers(df))
    /\ ProcessorFrame

SelectFinalColumnsAndClean ==
    /\ pc = "select_final_columns_and_clean"
    /\ ProcessorAdvance("select_final_columns_and_clean", "export_with_summary",
                        select_final_columns_and_clean(df))
    /\ ProcessorFrame

\* export_with_summary: df.to_csv(self.output_path), then the printed summary,
\* which reads poll_id among the columns
ExportWithSummary ==
    /\ pc = "export_with_summary"
    /\ output_csv' = df
    /\ IF KeyError(df, {"poll_id"})
       THEN /\ pc' = "process_raised"
            /\ exc' = "KeyError"
            /\ UNCHANGED stages_run
       ELSE /\ pc' = "process_done"
            /\ stages_run' = Append(stages_run, "export_with_summary")
            /\ UNCHANGED exc
    /\ UNCHANGED <<df, stage_input, passed_df>>
    /\ ProcessorFrame

NextProcessor ==
    \/ LoadAndParseData
    \/ FilterAndCleanCoreData
    \/ CreateTemporalFeatures
    \/ CreatePollsterQualityFeatures
    \/ CalculateStatisticalMeasures
    \/ CreateKeyEventsMarkers
    \/ SelectFinalColumnsAndClean
    \/ ExportWithSummary

SpecProcessor == InitProcessor /\ [][NextProcessor]_vars

InitPhase == InitProcessorWith(PhaseFiles)

SpecPhase == InitPhase /\ [][NextProcessor]_vars

----------------------------------------------------------------------------
(* Properties of SimplifiedPollingProcessor *)

\* filter_and_clean_core_data has just returned
Filtered == pc = "create_temporal_features"

\* the cells of the rows that identify a row and that the row filter reads
CoreCells(rows) ==
    [i \in DOMAIN rows |->
        [c \in {"poll_id", "created_at", "candidate_name", "pct"} \cap DOMAIN rows[i]
            |-> rows[i][c]]]

\* C4: filter_and_clean_core_data keeps a row if and only if its
\* candidate_name, trimmed of surrounding whitespace, is in MAIN_CANDIDATES
\* and its pct is present with 0 <= pct <= 100; kept rows keep their
\* candidate_name and pct.
C4_FilterKeepsTrimmedCandidates ==
    Filtered =>
        CoreCells(df.rows) =
            CoreCells(SelectSeq(stage_input.rows,
                LAMBDA r : /\ ~isnull(r["candidate_name"])
                           /\ Strip(r["candidate_name"])
                                \in {"Donald Trump", "Joe Biden", "Kamala Harris"}
                           /\ Within(r["pct"], 0, 10000)))

\* select_final_columns_and_clean has just returned
Selected == pc = "export_with_summary"

\* C9: the table returned by select_final_columns_and_clean holds no two
\* identical rows, and holds every distinct row of its input, projected onto
\* the available output columns.
C9_FinalRowsDistinct ==
    Selected =>
        /\ \A i, j \in DOMAIN df.rows : i # j => df.rows[i] # df.rows[j]
        /\ df.columns = final_columns \cap stage_input.columns
        /\ Range(df.rows) = Range(Project(stage_input.rows, df.columns))

\* two input rows that differ only in a dropped column became one row
C9_Witness ==
    /\ Selected
    /\ Len(stage_input.rows) = 2
    /\ stage_input.rows[1] # stage_input.rows[2]
    /\ Len(df.rows) = 1

----------------------------------------------------------------------------
(* Properties of the feature stages (feature_engineering.py) *)

\* add_methodology_features has just returned: df is its result and
\* stage_input the table it was called with
MethodologyAdded == pc = "quality"

\* some keyword of the group occurs in the text, letter case ignored
GroupMatches(text, keywords) ==
    \E keyword \in keywords : Contains(Lower(text), keyword)

\* the label of the first keyword group, in the order phone, online, IVR,
\* text, that matches the text without regard to letter case
FirstGroupLabel(text) ==
    IF isnull(text) THEN "Unknown"
    ELSE IF GroupMatches(text, phone_keywords) THEN "Live Phone"
    ELSE IF GroupMatches(text, online_keywords) THEN "Online"
    ELSE IF GroupMatches(text, ivr_keywords) THEN "IVR/Robocall"
    ELSE IF GroupMatches(text, text_keywords) THEN "Text/SMS"
    ELSE "Mixed/Other"

\* C11: _clean_methodology returns, for a present methodology string, the
\* label of the first keyword group (phone, online, IVR, text) that matches
\* it case-insensitively, "Mixed/Other" when none matches and "Unknown" for a
\* missing value; the letter case of the string does not change the result.
C11_MethodologyFirstGroupWins ==
    MethodologyAdded =>
        \A i \in DOMAIN df.rows :
            LET method == stage_input.rows[i]["methodology"]
            IN  /\ df.rows[i]["methodology_clean"] = FirstGroupLabel(method)
                /\ (~isnull(method) =>
                       _clean_methodology(Lower(method), {}).label
                          = df.rows[i]["methodology_clean"])

\* C12: add_methodology_features sets population_clean, in every row, to
\* "Registered voters", "Likely voters" or "All adults", and to "All adults"
\* for a missing or unrecognized population code.
C12_PopulationCleanValues ==
    MethodologyAdded =>
        \A i \in DOMAIN df.rows :
            LET code == stage_input.rows[i]["population"]
                clean == df.rows[i]["population_clean"]
            IN  /\ clean \in {"Registered voters", "Likely voters", "All adults"}
                /\ (isnull(code) \/ Lower(code) \notin {"a", "all", "rv", "lv", "v"}
                        => clean = "All adults")

\* C13: every row of the table returned by process_polling_data has a
\* polling_period_days in [1, 30]: the days from start_date to end_date,
\* 1 when a date is missing, clipped to 1..30.
C13_PollingPeriodClipped ==
    Returned =>
        \A i \in DOMAIN result_df.rows :
            Within(result_df.rows[i]["polling_period_days"], 1, 30)

\* add_geographic_features has just returned
GeographicAdded == pc = "temporal"

\* C15: _classify_geographic_scope has exactly three results: "National" for
\* a missing state, "Swing State" for one of the seven swing states, and
\* "Other State" for any other present state.
C15_GeographicScopeTotal ==
    GeographicAdded =>
        \A i \in DOMAIN df.rows :
            LET state == stage_input.rows[i]["state"]
                scope == df.rows[i]["geographic_scope"]
            IN  /\ scope \in {"National", "Swing State", "Other State"}
                /\ (scope = "National" <=> isnull(state))
                /\ (scope = "Swing State" <=>
                        state \in {"Arizona", "Georgia", "Michigan", "Nevada",
                                   "North Carolina", "Pennsylvania", "Wisconsin"})

\* a poll of Wisconsin and a poll without a state were classified
C15_Witness ==
    /\ GeographicAdded
    /\ \E i, j \in DOMAIN df.rows :
          /\ df.rows[i]["state"] = "Wisconsin"
          /\ df.rows[i]["geographic_scope"] = "Swing State"
          /\ isnull(df.rows[j]["state"])
          /\ df.rows[j]["geographic_scope"] = "National"

\* a poll of Texas was classified
C15_WitnessOther ==
    /\ GeographicAdded
    /\ \E i \in DOMAIN df.rows :
          /\ df.rows[i]["state"] = "Texas"
          /\ df.rows[i]["geographic_scope"] = "Other State"

\* add_quality_metrics has just returned
QualityAdded == pc = "save"

\* the sample size is absent or not positive
NoSample(r) == isna(r["sample_size"]) \/ r["sample_size"] <= 0

\* C16: a row whose sample_size is absent or <= 0 does not stop
\* add_quality_metrics: the stage returns with the row retained, and the
\* row's two margins of error (worst case and candidate-specific) and its
\* confidence bounds are missing.
C16_NoSampleGivesMissingMargin ==
    /\ (pc = "raised" /\ \E i \in DOMAIN df.rows : NoSample(df.rows[i]))
          => stages_run[Len(stages_run)] # "add_methodology_features"
    /\ QualityAdded =>
          /\ Len(df.rows) = Len(stage_input.rows)
          /\ \A i \in DOMAIN df.rows :
                /\ \A c \in stage_input.columns :
                      df.rows[i][c] = stage_input.rows[i][c]
                /\ NoSample(stage_input.rows[i]) =>
                      \A c \in {"margin_of_error", "candidate_specific_moe",
                                 "ci_lower", "ci_upper", "ci_cs_lower",
                                 "ci_cs_upper"} : isna(df.rows[i][c])

\* add_quality_metrics returned a table with a row of sample size 0 and a row
\* without a sample size
C16_Witness ==
    /\ QualityAdded
    /\ \E i, j \in DOMAIN df.rows :
          /\ df.rows[i]["sample_size"] = 0
          /\ isna(df.rows[i]["candidate_specific_moe"])
          /\ isna(df.rows[j]["sample_size"])
          /\ isna(df.rows[j]["margin_of_error"])

\* the labels of _categorize_pollscore
POLLSCORE_LABELS == {"Unrated", "High Quality", "Good Quality",
                     "Lower Quality", "Very Low Quality"}

\* C20: _categorize_pollscore returns, for every score, one of "Unrated",
\* "High Quality", "Good Quality", "Lower Quality" and "Very Low Quality",
\* never a missing result, and each of the five labels is the result for
\* some score (a missing score, or one of -5.0 .. 5.0 in tenths).
C20_PollscoreCategoryTotal ==
    /\ QualityAdded =>
          \A i \in DOMAIN df.rows :
              df.rows[i]["pollscore_category"] \in POLLSCORE_LABELS
    /\ \A label \in POLLSCORE_LABELS :
          \E score \in {NaN} \cup (-50 .. 50) :
              _categorize_pollscore(score) = label

\* C18: over the _clean_methodology calls of one process, the "Unrecognized
\* methodology" message is logged at most once per distinct string: on the
\* first call for a present string classified "Mixed/Other", and never again
\* for that string.
C18_UnrecognizedLoggedOnce ==
    /\ \A i, j \in DOMAIN diagnostics :
          i # j => diagnostics[i] # diagnostics[j]
    /\ \A i \in DOMAIN diagnostics :
          /\ ~isnull(diagnostics[i])
          /\ _clean_methodology(diagnostics[i], {}).label = "Mixed/Other"
    /\ MethodologyAdded =>
          \A i \in DOMAIN df.rows :
              (/\ ~isnull(df.rows[i]["methodology"])
               /\ df.rows[i]["methodology_clean"] = "Mixed/Other")
                  => df.rows[i]["methodology"] \in Range(diagnostics)

\* add_temporal_features has just returned
TemporalAdded == pc = "methodology"

\* the windows of Config.CAMPAIGN_PHASES, closed at both ends, that hold the
\* date
WindowsOf(date) ==
    {k \in DOMAIN CAMPAIGN_PHASES :
        /\ ~isnat(date)
        /\ CAMPAIGN_PHASES[k].start <= date
        /\ date <= CAMPAIGN_PHASES[k].end}

\* C21: _get_campaign_phase returns the first phase, in the declaration order
\* of Config.CAMPAIGN_PHASES, whose closed window holds the end date: a date
\* two windows share (2024-03-01, 2024-07-21, 2024-09-01, 2024-11-05) gets
\* the earlier phase; a date in no window, and a missing date, gets "Other",
\* and add_temporal_features does not raise.
C21_CampaignPhaseFirstWindow ==
    /\ (pc = "raised" /\ stages_run # <<>>)
          => stages_run[Len(stages_run)] # "add_geographic_features"
    /\ TemporalAdded =>
          \A i \in DOMAIN df.rows :
              LET date == stage_input.rows[i]["end_date"]
                  phase == df.rows[i]["campaign_phase"]
              IN  /\ WindowsOf(date) = {} <=> phase = "Other"
                  /\ WindowsOf(date) # {} =>
                        /\ \E k \in WindowsOf(date) : phase = CAMPAIGN_PHASES[k].phase
                        /\ \A k \in WindowsOf(date) :
                              \A j \in 1..(k - 1) :
                                  phase = CAMPAIGN_PHASES[k].phase
                                      => j \notin WindowsOf(date)
                  /\ (date = Timestamp(2024, 3, 1) => phase = "Early Primary")
                  /\ (date = Timestamp(2024, 7, 21) => phase = "Primary Season")
                  /\ (date = Timestamp(2024, 9, 1) => phase = "Harris Entry")
                  /\ (date = Timestamp(2024, 11, 5) => phase = "General Election")
                  /\ (isnat(date) => phase = "Other")

\* a poll that ended on 2024-07-21, the day two windows share, and a poll
\* without an end date got their phases
C21_Witness ==
    /\ TemporalAdded
    /\ \E i, j \in DOMAIN df.rows :
          /\ df.rows[i]["end_date"] = Timestamp(2024, 7, 21)
          /\ df.rows[i]["campaign_phase"] = "Primary Season"
          /\ isnat(df.rows[j]["end_date"])
          /\ df.rows[j]["campaign_phase"] = "Other"

\* a poll that ended after the last window got "Other"
C21_WitnessOutside ==
    /\ TemporalAdded
    /\ \E i \in DOMAIN df.rows :
          /\ df.rows[i]["end_date"] = Timestamp(2025, 1, 21)
          /\ df.rows[i]["campaign_phase"] = "Other"

----------------------------------------------------------------------------
(* Properties of the stages of SimplifiedPollingProcessor *)

\* create_temporal_features has just returned
TemporalCreated == pc = "create_pollster_quality_features"

\* C14: categorize_campaign_phase gives every days_until_election exactly one
\* label: "Unknown" when missing, "Post-Election" below 0, "Final Month" in
\* 0..30, "Final Stretch" in 31..100, "Fall Campaign" in 101..200, "Primary
\* Season" in 201..365 and "Early Campaign" above 365.
C14_CampaignPhaseThresholds ==
    TemporalCreated =>
        \A i \in DOMAIN df.rows :
            LET d == df.rows[i]["days_until_election"]
                phase == df.rows[i]["campaign_phase"]
            IN  /\ (isna(d) <=> phase = "Unknown")
                /\ (~isna(d) /\ d < 0 <=> phase = "Post-Election")
                /\ (Within(d, 0, 30) <=> phase = "Final Month")
                /\ (Within(d, 31, 100) <=> phase = "Final Stretch")
                /\ (Within(d, 101, 200) <=> phase = "Fall Campaign")
                /\ (Within(d, 201, 365) <=> phase = "Primary Season")
                /\ (~isna(d) /\ d > 365 <=> phase = "Early Campaign")

\* two rows, 5 days after the election and 3000 days before it, got
\* "Post-Election" and "Early Campaign"
C14_Witness ==
    /\ TemporalCreated
    /\ Len(df.rows) = 2
    /\ df.rows[1]["days_until_election"] = -5
    /\ df.rows[1]["campaign_phase"] = "Post-Election"
    /\ df.rows[2]["days_until_election"] = 3000
    /\ df.rows[2]["campaign_phase"] = "Early Campaign"

\* calculate_statistical_measures has just returned
MeasuresCalculated == pc = "create_key_events_markers"

\* C17: after calculate_statistical_measures, when two rows differ in their
\* raw composite score every poll_quality_score lies in [0, 100], with 0 for
\* the lowest raw score and 100 for the highest; when all rows share one raw
\* score (a single row included) every poll_quality_score is missing.
C17_QualityScoreNormalised ==
    MeasuresCalculated =>
        LET raw == [i \in DOMAIN stage_input.rows |->
                        RawQualityScore(stage_input.rows[i])]
            score == [i \in DOMAIN df.rows |-> df.rows[i]["poll_quality_score"]]
        IN  /\ DOMAIN score = DOMAIN raw
            /\ IF \E i, j \in DOMAIN raw : raw[i] # raw[j]
               THEN \A i \in DOMAIN raw :
                       /\ Within(score[i], 0, 10000)
                       /\ ((\A j \in DOMAIN raw : raw[i] <= raw[j]) => score[i] = 0)
                       /\ ((\A j \in DOMAIN raw : raw[i] >= raw[j])
                              => score[i] = 10000)
               ELSE \A i \in DOMAIN raw : isna(score[i])

\* two rows of different raw scores were normalised to 0 and 100
C17_Witness ==
    /\ MeasuresCalculated
    /\ Len(df.rows) = 2
    /\ {df.rows[1]["poll_quality_score"], df.rows[2]["poll_quality_score"]}
          = {0, 10000}

\* a table of one row got a missing score
C17_WitnessSingleRow ==
    /\ MeasuresCalculated
    /\ Len(df.rows) = 1
    /\ isna(df.rows[1]["poll_quality_score"])

----------------------------------------------------------------------------
(* Properties of the stages of both pipelines *)

\* the stage functions that take a table and return a table
STAGE_FUNCTIONS ==
    {"clean_dates", "filter_main_candidates", "add_geographic_features",
     "add_temporal_features", "add_methodology_features", "add_quality_metrics",
     "filter_and_clean_core_data", "create_temporal_features",
     "create_pollster_quality_features", "calculate_statistical_measures",
     "create_key_events_markers", "select_final_columns_and_clean"}

\* C19: every stage function of both pipelines leaves the table passed to it
\* as it was (same columns, same rows, same values) and returns a new table.
C19_StagesLeaveInputUnchanged ==
    (stages_run # <<>> /\ stages_run[Len(stages_run)] \in STAGE_FUNCTIONS)
        => passed_df = stage_input

====
